---- MODULE Spec2Model ----
(***************************************************************************)
(* The JoinNetwork page of react-app (src/pages/JoinNetwork/index.js): a   *)
(* React class component holding state {urls, url}, one GET /peers issued  *)
(* at mount, one POST /joinNetwork per form submission, and the rendering  *)
(* of the peer list.  The browser's side of the form (event dispatch, the  *)
(* default action of a submit event, the promise callbacks of fetch) is    *)
(* modelled as far as the handlers depend on it.                           *)
(***************************************************************************)
EXTENDS Naturals, Sequences, FiniteSets

VARIABLES
    phase,      \* "constructed" | "mounted" | "crashed" (render threw) | "unloaded"
    urls,       \* this.state.urls: a JSON value
    url,        \* this.state.url: a string (sequence of characters)
    field,      \* the text shown in the form's input (DOM, uncontrolled input)
    view,       \* the <p> entries of the last committed render
    log,        \* every fetch() call made so far, in order
    peers,      \* the promise chain of the GET /peers fetch
    events,     \* the submit events dispatched so far, each with its POST
    navPending, \* the browser has started the default form navigation
    lastTyped   \* history: the value carried by the most recent change event

vars == <<phase, urls, url, field, view, log, peers, events, navPending, lastTyped>>

\* Largest number of form submissions of one run.
MaxSubmits == 2

\* The texts a change event may carry (strings as sequences of characters).
InputValues == { <<>>, <<"a">>, <<"\"", "a">> }

\* The response bodies the server may give to GET /peers.
PeerTexts == { "[]", "[\"a\"]", "[\"a\",\"b\"]", "[\"b\",\"a\"]", "[\"a\",\"a\"]",
               "null", "{}", "7", "<html>" }

\* The response statuses of POST /joinNetwork for which fetch() resolves.
Statuses == { 200, 500 }

Arr(s) == [t |-> "array", v |-> s]
Atom(k) == [t |-> k, v |-> <<>>]

\* res.json(): the parsed body, or a rejection when the body is not JSON.
json(text) ==
    CASE text = "[]" -> [ok |-> TRUE, data |-> Arr(<<>>)]
      [] text = "[\"a\"]" -> [ok |-> TRUE, data |-> Arr(<<"a">>)]
      [] text = "[\"a\",\"b\"]" -> [ok |-> TRUE, data |-> Arr(<<"a", "b">>)]
      [] text = "[\"b\",\"a\"]" -> [ok |-> TRUE, data |-> Arr(<<"b", "a">>)]
      [] text = "[\"a\",\"a\"]" -> [ok |-> TRUE, data |-> Arr(<<"a", "a">>)]
      [] text = "null" -> [ok |-> TRUE, data |-> Atom("null")]
      [] text = "{}" -> [ok |-> TRUE, data |-> Atom("object")]
      [] text = "7" -> [ok |-> TRUE, data |-> Atom("number")]
      [] OTHER -> [ok |-> FALSE, data |-> Atom("undefined")]

\* JSON.stringify of a string: quoted, with " and \ escaped.
RECURSIVE Escape(_)
Escape(s) ==
    IF s = <<>> THEN <<>>
    ELSE (IF Head(s) \in {"\"", "\\"} THEN <<"\\", Head(s)>> ELSE <<Head(s)>>)
         \o Escape(Tail(s))

Quote(s) == <<"\"">> \o Escape(s) \o <<"\"">>

\* JSON.stringify({url: v})
JSONstringify(body) ==
    <<"{">> \o Quote(<<"u", "r", "l">>) \o <<":">> \o Quote(body.url) \o <<"}">>

\* this.state.urls.map(url => <p>{url}</p>); map exists on arrays only.
CanMap(u) == u.t = "array"

render_reversed(u) ==
    [i \in 1..Len(u.v) |-> [tag |-> "p", text |-> u.v[Len(u.v) + 1 - i]]]

render(u) == [i \in 1..Len(u.v) |-> [tag |-> "p", text |-> u.v[i]]]

Init ==
    /\ phase = "constructed"
    /\ urls = Arr(<<>>)
    /\ url = <<>>
    /\ field = <<>>
    /\ view = <<>>
    /\ log = <<>>
    /\ peers = [st |-> "none", text |-> ""]
    /\ events = <<>>
    /\ navPending = FALSE
    /\ lastTyped = <<>>

\* fetch('/peers', {method: "GET"})
get_peers ==
    /\ log' = Append(log, [method |-> "GET", path |-> "/peers",
                           contentType |-> "", body |-> <<>>])
    /\ peers' = [st |-> "pending", text |-> ""]

\* First render, then componentDidMount.
componentDidMount ==
    /\ phase = "constructed"
    /\ phase' = "mounted"
    /\ view' = render(urls)
    /\ get_peers
    /\ UNCHANGED <<urls, url, field, events, navPending, lastTyped>>

Alive == phase \in {"mounted", "crashed"}

\* onChange={(e) => this.setState({url: e.target.value})}, then the re-render.
onChange_stale(v) ==
    /\ phase = "mounted"
    /\ url' = field
    /\ field' = v
    /\ lastTyped' = v
    /\ view' = render(urls)
    /\ UNCHANGED <<phase, urls, log, peers, events, navPending>>

onChange(v) ==
    /\ phase = "mounted"
    /\ url' = v
    /\ field' = v
    /\ lastTyped' = v
    /\ view' = render(urls)
    /\ UNCHANGED <<phase, urls, log, peers, events, navPending>>

\* The submit event as the handler leaves it when it returns: `prevented` is
\* whether preventDefault was called during the dispatch.
SubmitEvent(prevented) ==
    [typed |-> lastTyped, post |-> "pending", status |-> 0,
     defaultPrevented |-> prevented, navigated |-> ~prevented, reset |-> FALSE]

PostRequest(v) ==
    [method |-> "POST", path |-> "/joinNetwork",
     contentType |-> "application/json", body |-> JSONstringify([url |-> v])]

\* join_network up to its return: the body is built from this.state.url and
\* the fetch is started; the .then callback runs later (JoinResponse).
join_network_fromField ==
    /\ log' = Append(log, PostRequest(field))
    /\ events' = Append(events, SubmitEvent(FALSE))

join_network ==
    /\ log' = Append(log, PostRequest(url))
    /\ events' = Append(events, SubmitEvent(FALSE))

\* Dispatch of one submit event on the form: the handler runs to its return,
\* then the browser performs the default action unless it was prevented.
Submit ==
    /\ phase = "mounted"
    /\ Len(events) < MaxSubmits
    /\ join_network
    /\ navPending' = (navPending \/ events'[Len(events')].navigated)
    /\ UNCHANGED <<phase, urls, url, field, view, peers, lastTyped>>

\* GET /peers answered with a JSON body: .then(res => res.json())
\* .then(data => this.setState({urls: data})), then the re-render.
PeersResponse_afterJoins(text) ==
    /\ phase = "mounted"
    /\ peers.st = "pending"
    /\ \A i \in DOMAIN events : events[i].post # "pending"
    /\ json(text).ok
    /\ peers' = [st |-> "resolved", text |-> text]
    /\ urls' = json(text).data
    /\ IF CanMap(urls')
         THEN view' = render(urls') /\ phase' = phase
         ELSE view' = <<>> /\ phase' = "crashed"
    /\ UNCHANGED <<url, field, log, events, navPending, lastTyped>>

PeersResponse(text) ==
    /\ phase = "mounted"
    /\ peers.st = "pending"
    /\ json(text).ok
    /\ peers' = [st |-> "resolved", text |-> text]
    /\ urls' = json(text).data
    /\ IF CanMap(urls')
         THEN view' = render(urls') /\ phase' = phase
         ELSE view' = <<>> /\ phase' = "crashed"
    /\ UNCHANGED <<url, field, log, events, navPending, lastTyped>>

\* GET /peers answered with a body that is not JSON: res.json() rejects and
\* nothing catches it.
PeersMalformed(text) ==
    /\ Alive
    /\ peers.st = "pending"
    /\ ~json(text).ok
    /\ peers' = [st |-> "rejected", text |-> text]
    /\ UNCHANGED <<phase, urls, url, field, view, log, events, navPending, lastTyped>>

\* GET /peers fails in the network: fetch rejects and nothing catches it.
PeersRejected ==
    /\ Alive
    /\ peers.st = "pending"
    /\ peers' = [st |-> "rejected", text |-> ""]
    /\ UNCHANGED <<phase, urls, url, field, view, log, events, navPending, lastTyped>>

Fulfilled(ev, status) ==
    [ev EXCEPT !.post = "fulfilled", !.status = status,
               !.defaultPrevented = TRUE, !.reset = TRUE]

\* POST /joinNetwork of the i-th submit answered (any status): the .then
\* callback calls event.preventDefault() and event.target.reset().  The
\* event object is taken to keep its target after the handler returned
\* (React 17 and later; no event pooling); by then the dispatch is over, so
\* the flag set by preventDefault() changes nothing the browser does.
JoinResponse_refresh(i, status) ==
    /\ Alive
    /\ i \in DOMAIN events
    /\ events[i].post = "pending"
    /\ events' = [events EXCEPT ![i] = Fulfilled(@, status)]
    /\ field' = <<>>
    /\ get_peers
    /\ UNCHANGED <<phase, urls, url, view, navPending, lastTyped>>

JoinResponse_optimistic(i, status) ==
    /\ Alive
    /\ i \in DOMAIN events
    /\ events[i].post = "pending"
    /\ events' = [events EXCEPT ![i] = Fulfilled(@, status)]
    /\ field' = <<>>
    /\ urls' = IF CanMap(urls) THEN Arr(Append(urls.v, "a")) ELSE urls
    /\ UNCHANGED <<phase, url, view, log, peers, navPending, lastTyped>>

JoinResponse(i, status) ==
    /\ Alive
    /\ i \in DOMAIN events
    /\ events[i].post = "pending"
    /\ events' = [events EXCEPT ![i] = Fulfilled(@, status)]
    /\ field' = <<>>
    /\ UNCHANGED <<phase, urls, url, view, log, peers, navPending, lastTyped>>

\* POST /joinNetwork of the i-th submit fails in the network: fetch rejects,
\* the callback never runs and nothing catches the rejection.
JoinRejected_retry(i) ==
    /\ Alive
    /\ i \in DOMAIN events
    /\ events[i].post = "pending"
    /\ events' = [events EXCEPT ![i].post = "rejected"]
    /\ log' = Append(log, PostRequest(url))
    /\ UNCHANGED <<phase, urls, url, field, view, peers, navPending, lastTyped>>

JoinRejected(i) ==
    /\ Alive
    /\ i \in DOMAIN events
    /\ events[i].post = "pending"
    /\ events' = [events EXCEPT ![i].post = "rejected"]
    /\ UNCHANGED <<phase, urls, url, field, view, log, peers, navPending, lastTyped>>

\* The navigation started by a submit event's default action replaces the
\* document: the component is gone and its pending fetches are aborted.
Unload ==
    /\ Alive
    /\ navPending
    /\ phase' = "unloaded"
    /\ UNCHANGED <<urls, url, field, view, log, peers, events, navPending, lastTyped>>

Next ==
    \/ componentDidMount
    \/ \E v \in InputValues : onChange(v)
    \/ Submit
    \/ \E text \in PeerTexts : PeersResponse(text)
    \/ \E text \in PeerTexts : PeersMalformed(text)
    \/ PeersRejected
    \/ \E i \in 1..MaxSubmits, status \in Statuses : JoinResponse(i, status)
    \/ \E i \in 1..MaxSubmits : JoinRejected(i)
    \/ Unload

Spec == Init /\ [][Next]_vars

(***************************************************************************)
(* Helpers of the properties.                                              *)
(***************************************************************************)
IsPost(r) == r.method = "POST"
IsGet(r) == r.method = "GET"

RECURSIVE WellEscaped(_)
WellEscaped(s) ==
    IF s = <<>> THEN TRUE
    ELSE IF Head(s) = "\\" THEN Len(s) >= 2 /\ WellEscaped(Tail(Tail(s)))
    ELSE Head(s) # "\"" /\ WellEscaped(Tail(s))

RECURSIVE Unescape(_)
Unescape(s) ==
    IF s = <<>> THEN <<>>
    ELSE IF Head(s) = "\\" /\ Len(s) >= 2 THEN <<s[2]>> \o Unescape(Tail(Tail(s)))
    ELSE <<Head(s)>> \o Unescape(Tail(s))

BodyPrefix == <<"{", "\"", "u", "r", "l", "\"", ":", "\"">>
BodySuffix == <<"\"", "}">>

\* What a JSON parser reads back from a request body of the form {"url":"..."}.
ParseBody(b) ==
    LET n == Len(BodyPrefix)
        inner == SubSeq(b, n + 1, Len(b) - Len(BodySuffix))
    IN IF /\ Len(b) >= n + Len(BodySuffix)
          /\ SubSeq(b, 1, n) = BodyPrefix
          /\ SubSeq(b, Len(b) - Len(BodySuffix) + 1, Len(b)) = BodySuffix
          /\ WellEscaped(inner)
       THEN [ok |-> TRUE, url |-> Unescape(inner)]
       ELSE [ok |-> FALSE, url |-> <<>>]

AnyPeersFailure == PeersRejected \/ \E text \in PeerTexts : PeersMalformed(text)
AnyJoinResponse == \E i \in 1..MaxSubmits, status \in Statuses : JoinResponse(i, status)
AnyJoinRejected == \E i \in 1..MaxSubmits : JoinRejected(i)
Quiescent ==
    /\ peers.st \in {"resolved", "rejected"}
    /\ \A i \in DOMAIN events : events[i].post # "pending"

(***************************************************************************)
(* C1: every form submission prevents the browser's default navigation for *)
(* that submit event (preventDefault is in effect when the dispatch ends)  *)
(* and, once its POST is answered with any status, the form has been       *)
(* reset.                                                                  *)
(***************************************************************************)
C1_SubmitPreventsDefault ==
    \A i \in DOMAIN events :
        /\ ~events[i].navigated
        /\ (events[i].post = "fulfilled" => events[i].reset)

(***************************************************************************)
(* C2: each submission issues exactly one POST /joinNetwork with           *)
(* Content-Type application/json whose body parses to {url: v}, v the      *)
(* value of the last change event before the submit ('' if none); nothing  *)
(* that happens later alters a request already sent.                       *)
(***************************************************************************)
C2_PostsMatchSubmits ==
    LET posts == SelectSeq(log, IsPost)
    IN /\ Len(posts) = Len(events)
       /\ \A i \in DOMAIN events :
            /\ posts[i].path = "/joinNetwork"
            /\ posts[i].contentType = "application/json"
            /\ ParseBody(posts[i].body).ok
            /\ ParseBody(posts[i].body).url = events[i].typed

C2_OnePostPerSubmit ==
    /\ []C2_PostsMatchSubmits
    /\ [][\A k \in DOMAIN log : k \in DOMAIN log' /\ log'[k] = log[k]]_vars
    /\ [][(\E v \in InputValues : onChange(v)) => log' = log]_vars

\* Two submissions, the second after the form was reset and with a quote in
\* the text typed before the first: both requests are in the log.
C2_Witness ==
    /\ Len(events) = 2
    /\ events[1].typed = <<"\"", "a">>
    /\ events[1].reset
    /\ Len(SelectSeq(log, IsPost)) = 2
    /\ lastTyped = <<"a">>

(***************************************************************************)
(* C3: exactly one GET /peers is issued in total, at mount; no change,     *)
(* submission or response delivery issues another.                         *)
(***************************************************************************)
C3_OneGetAtMount ==
    IF phase = "constructed"
    THEN log = <<>>
    ELSE /\ Len(SelectSeq(log, IsGet)) = 1
         /\ log[1].method = "GET"
         /\ log[1].path = "/peers"

C3_Witness ==
    /\ phase = "mounted"
    /\ peers.st = "resolved"
    /\ Len(events) = 2
    /\ \A i \in DOMAIN events : events[i].post = "fulfilled"
    /\ lastTyped # <<>>
    /\ Len(log) = 3

(***************************************************************************)
(* C4: while the component is rendered, the peer entries shown are exactly *)
(* the elements of the array delivered by GET /peers, one <p> per element  *)
(* in the same order, and there is none before the response is delivered.  *)
(***************************************************************************)
C4_RenderedPeers ==
    phase = "mounted" =>
        IF peers.st = "resolved"
        THEN LET A == json(peers.text).data.v
             IN /\ Len(view) = Len(A)
                /\ \A i \in 1..Len(A) : view[i] = [tag |-> "p", text |-> A[i]]
        ELSE view = <<>>

C4_Witness ==
    /\ phase = "mounted"
    /\ peers.text = "[\"a\",\"b\"]"
    /\ peers.st = "resolved"
    /\ view = <<[tag |-> "p", text |-> "a"], [tag |-> "p", text |-> "b"]>>
    /\ lastTyped # <<>>

(***************************************************************************)
(* C5: when the POST of a submission completes, state.url is the empty     *)
(* string again (it agrees with the cleared input field).                  *)
(***************************************************************************)
C5_UrlResetOnSubmit ==
    [][AnyJoinResponse => url' = <<>>]_vars

(***************************************************************************)
(* C6: state.url always equals the value carried by the most recent change *)
(* event ('' before the first); a change event leaves urls unchanged and   *)
(* issues no request.                                                      *)
(***************************************************************************)
C6_UrlTracksInput ==
    /\ [](url = lastTyped)
    /\ [][(\E v \in InputValues : onChange(v)) => (urls' = urls /\ log' = log)]_vars

\* After a change event, a submission and the form reset: url is still the
\* text of that change event.
C6_Witness ==
    /\ url = <<"\"", "a">>
    /\ lastTyped = url
    /\ field = <<>>
    /\ events # <<>>

(***************************************************************************)
(* C7: urls is the initial empty list until a GET /peers response has been *)
(* delivered and the body of that response from then on; a submission and  *)
(* the completion of its POST leave urls unchanged.                        *)
(***************************************************************************)
C7_UrlsIsPeersResponse ==
    /\ [](IF peers.st = "resolved"
          THEN urls = json(peers.text).data
          ELSE urls = Arr(<<>>))
    /\ [][(Submit \/ AnyJoinResponse) => urls' = urls]_vars

C7_Witness ==
    /\ peers.st = "resolved"
    /\ urls = Arr(<<"b", "a">>)
    /\ \E i \in DOMAIN events : events[i].post = "fulfilled" /\ events[i].typed = <<"a">>

(***************************************************************************)
(* C8: the GET and the POSTs do not block each other: a live component     *)
(* accepts a submission whether or not GET /peers is pending, every        *)
(* pending response can be delivered whatever the state of the others,     *)
(* and once all are delivered the state (urls, url) is determined by the   *)
(* responses and the change events, not by the order of delivery.          *)
(***************************************************************************)
C8_Independent ==
    /\ (phase = "mounted" /\ Len(events) < MaxSubmits) => ENABLED Submit
    /\ (phase = "mounted" /\ peers.st = "pending") =>
          \A text \in PeerTexts : json(text).ok => ENABLED PeersResponse(text)
    /\ Alive =>
          \A i \in DOMAIN events :
              events[i].post = "pending" =>
                  \A status \in Statuses : ENABLED JoinResponse(i, status)
    /\ Quiescent =>
          /\ urls = (IF peers.st = "resolved" THEN json(peers.text).data ELSE Arr(<<>>))
          /\ url = lastTyped

\* Three requests in flight at once, the second POST answered first.
C8_Witness ==
    /\ phase = "mounted"
    /\ peers.st = "pending"
    /\ Len(events) = 2
    /\ events[1].post = "pending"
    /\ events[2].post = "fulfilled"

(***************************************************************************)
(* C9: a failed GET /peers (network rejection or unparsable body) or a     *)
(* rejected POST /joinNetwork changes neither urls nor url, issues no      *)
(* request, runs none of the success callbacks, and leaves the component   *)
(* accepting change events and submissions.                                *)
(***************************************************************************)
C9_FailuresHaveNoEffect ==
    /\ [][(AnyPeersFailure \/ AnyJoinRejected) =>
            /\ UNCHANGED <<urls, url, field, view, log, phase, navPending>>
            /\ Len(events') = Len(events)
            /\ \A i \in DOMAIN events :
                 /\ events'[i].reset = events[i].reset
                 /\ events'[i].defaultPrevented = events[i].defaultPrevented
                 /\ events'[i].post # "fulfilled" \/ events[i].post = "fulfilled"]_vars
    /\ []((/\ phase = "mounted"
           /\ (peers.st = "rejected" \/ \E i \in DOMAIN events : events[i].post = "rejected"))
          => /\ \A v \in InputValues : ENABLED onChange(v)
             /\ Len(events) < MaxSubmits => ENABLED Submit)

\* Both kinds of request failed, and a change event and a second submission
\* were handled after the failures.
C9_Witness ==
    /\ phase = "mounted"
    /\ peers = [st |-> "rejected", text |-> "<html>"]
    /\ Len(events) = 2
    /\ events[1].post = "rejected"
    /\ events[2].typed # events[1].typed
    /\ urls = Arr(<<>>)
    /\ Len(log) = 3

(***************************************************************************)
(* C10: urls is a sequence (of strings) in every reachable state, whatever *)
(* JSON value GET /peers returns, so that render can map over it.          *)
(***************************************************************************)
C10_UrlsIsSequence ==
    /\ CanMap(urls)
    /\ \A i \in 1..Len(urls.v) : urls.v[i] \in {"a", "b"}
====
